---- MODULE Spec2Model ----
(***************************************************************************)
(* A model of src/plots.py: one render cycle of the percentage-change      *)
(* dashboard (selection, per-instrument fetch / reference / normalisation  *)
(* / staleness, sidebar aggregation), with fetch_data and                  *)
(* compute_pct_change as operators over data frames.                       *)
(*                                                                         *)
(* Conventions.                                                            *)
(*  - Text (instrument keys, source identifiers, labels, the free-text     *)
(*    box) is a sequence of one-character strings, so that split, strip    *)
(*    and upper are computed character by character.                       *)
(*  - A timestamp is a number of seconds on the Europe/London wall clock,  *)
(*    counted from the midnight that starts day 0; daylight-saving shifts  *)
(*    are not modelled (every day has 24 hours).                           *)
(*  - A data frame is a sequence of rows [t, Close] in index order; after  *)
(*    compute_pct_change each row also has PctChange.                      *)
(*  - Python's None for an optional number is <<>>, a value v is <<v>>.    *)
(*  - A float quotient is an extended rational [n, d] in lowest terms:     *)
(*    d > 0 is the finite value n/d, [1,0] is +inf, [-1,0] is -inf and     *)
(*    [0,0] is NaN (what the pandas division yields for a zero divisor).   *)
(*    Binary rounding of finite quotients is not modelled.                 *)
(*  - Colours, line styles, annotations and page layout are left out.      *)
(*  - The libraries are taken at their documented behaviour: a widget      *)
(*    returns one of its options (the pills widget a group name, the       *)
(*    multiselects distinct options in the order picked), yf.download      *)
(*    returns a frame in increasing time or an empty one and does not      *)
(*    raise, and the clock never goes back.                                *)
(*  - A rerun (button or timer) executes the script again from the top     *)
(*    with nothing kept: it is a new behaviour of the same specification.  *)
(***************************************************************************)
EXTENDS Integers, Sequences, FiniteSets, TLC

VARIABLES
    pc,               \* position of the script: "select", "loop", "sidebar", "done", "stopped", "exception"; in FnSpec "call", "fetched", "nodata", "computed"
    mode,             \* st.sidebar.radio "Select Mode"
    lookback_days,    \* st.sidebar.slider "Lookback Period (days)"
    selected_group,   \* st.sidebar.pills "Select Group" (Group mode)
    selected_single,  \* st.sidebar.multiselect "Select Single Stocks"
    custom_stocks,    \* st.sidebar.text_input "Or add additional tickers"
    user_selection,   \* history: selected_single_tickers before the anchor rule (line 159)
    selected_tickers, \* the list the loop iterates
    idx,              \* 1-based position of the loop in selected_tickers
    now,              \* latest value read from dt.datetime.now(Europe/London)
    fig,              \* traces added to the figure, in order
    errors,           \* st.error notices, in order
    warnings,         \* st.warning / st.sidebar.warning texts, in order
    current_values,   \* the dict label -> current value, as an insertion-ordered list of pairs
    stale_tickers,    \* the list of stale labels
    sidebar,          \* lines written under "Current Values"
    log,              \* history: one record per loop iteration (what was downloaded, what came of it)
    df_all,           \* FnSpec: the downloaded frame handed to fetch_data
    df,               \* FnSpec: the frame returned by fetch_data / compute_pct_change
    ref_price,        \* FnSpec: the reference returned by fetch_data
    used_ref          \* FnSpec: the base returned by compute_pct_change

vars == <<pc, mode, lookback_days, selected_group, selected_single, custom_stocks,
          user_selection, selected_tickers, idx, now, fig, errors, warnings,
          current_values, stale_tickers, sidebar, log, df_all, df, ref_price, used_ref>>

selVars == <<mode, lookback_days, selected_group, selected_single, custom_stocks,
             user_selection, selected_tickers>>
outVars == <<fig, errors, current_values, stale_tickers, log>>
fnVars  == <<df_all, df, ref_price, used_ref>>

(***************************************************************************)
(* Bounds of the model.                                                    *)
(***************************************************************************)
MaxPts == 3         \* rows in a downloaded frame (FnSpec)
MaxSel == 3         \* instruments in a selection that the loop of Spec runs over
MaxLookback == 2    \* slider positions explored (the slider goes to 10)
MaxCustomLen == 4   \* characters typed in the free-text box (SelSpec)
MaxPicks == 1       \* entries picked in a multiselect (SelSpec)

(***************************************************************************)
(* Time.                                                                   *)
(***************************************************************************)
Day == 24 * 3600
RefTime == 16 * 3600 + 30 * 60      \* dt.time(16, 30)
StartTime == 8 * 3600               \* dt.time(8, 0)
StaleThreshold == 1800

DateOf(t) == t \div Day
Combine(date, tod) == date * Day + tod

(***************************************************************************)
(* Sequences.                                                              *)
(***************************************************************************)
Range(s) == {s[i] : i \in DOMAIN s}
Last(s) == s[Len(s)]
Contains(s, x) == \E i \in DOMAIN s : s[i] = x

\* All sequences over S of length at most n.
SeqsUpTo(S, n) == UNION {[1..k -> S] : k \in 0..n}
\* Those without a repeated element.
InjSeqsUpTo(S, n) == {s \in SeqsUpTo(S, n) : \A i, j \in DOMAIN s : s[i] = s[j] => i = j}

(***************************************************************************)
(* Text: str.upper, str.strip, str.split.                                  *)
(***************************************************************************)
LowerCase == <<"a","b","c","d","e","f","g","h","i","j","k","l","m",
               "n","o","p","q","r","s","t","u","v","w","x","y","z">>
UpperCase == <<"A","B","C","D","E","F","G","H","I","J","K","L","M",
               "N","O","P","Q","R","S","T","U","V","W","X","Y","Z">>

UpperChar(c) ==
    IF \E i \in DOMAIN LowerCase : LowerCase[i] = c
    THEN UpperCase[CHOOSE i \in DOMAIN LowerCase : LowerCase[i] = c]
    ELSE c

\* key.upper()
Upper(s) == [i \in DOMAIN s |-> UpperChar(s[i])]

IsSpace(c) == c \in {" ", "\t", "\n", "\r"}

RECURSIVE LStrip(_)
LStrip(s) == IF s # <<>> /\ IsSpace(Head(s)) THEN LStrip(Tail(s)) ELSE s

RECURSIVE RStrip(_)
RStrip(s) == IF s # <<>> /\ IsSpace(Last(s)) THEN RStrip(SubSeq(s, 1, Len(s) - 1)) ELSE s

\* s.strip()
Strip(s) == RStrip(LStrip(s))

\* The fields of s from position i on, cur being the field read so far.
RECURSIVE SplitFrom(_, _, _, _)
SplitFrom(s, sep, cur, i) ==
    IF i > Len(s) THEN <<cur>>
    ELSE IF s[i] = sep THEN <<cur>> \o SplitFrom(s, sep, <<>>, i + 1)
    ELSE SplitFrom(s, sep, Append(cur, s[i]), i + 1)

\* s.split(sep): always at least one field ("".split(",") is [""]).
Split(s, sep) == SplitFrom(s, sep, <<>>, 1)

(***************************************************************************)
(* Insertion-ordered dicts, as sequences of [k, v] pairs with distinct k.  *)
(***************************************************************************)
Keys(d) == [i \in DOMAIN d |-> d[i].k]
HasKey(d, key) == \E i \in DOMAIN d : d[i].k = key
Lookup(d, key) == d[CHOOSE i \in DOMAIN d : d[i].k = key].v
\* d[key] = value: a new key goes last, a known key keeps its place.
DictSet(d, key, value) ==
    IF HasKey(d, key)
    THEN [i \in DOMAIN d |-> IF d[i].k = key THEN [k |-> key, v |-> value] ELSE d[i]]
    ELSE Append(d, [k |-> key, v |-> value])

(***************************************************************************)
(* The catalog.                                                            *)
(***************************************************************************)
yfinance_tickers == <<
    [k |-> <<"a","e","x">>,         v |-> <<"^","A","E","X">>],
    [k |-> <<"b","a","n","k","s">>, v |-> <<"^","S","X","7","E">>],
    [k |-> <<"c","a","c">>,         v |-> <<"^","F","C","H","I">>],
    [k |-> <<"d","a","x">>,         v |-> <<"^","G","D","A","X","I">>],
    [k |-> <<"f","t","s","e">>,     v |-> <<"^","F","T","S","E">>],
    [k |-> <<"m","i","b">>,         v |-> <<"^","F","T","S","E","M","I","B",".","M","I">>],
    [k |-> <<"s","m","i">>,         v |-> <<"^","S","S","M","I">>],
    [k |-> <<"s","x","5","e">>,     v |-> <<"^","S","T","O","X","X","5","0","E">>],
    [k |-> <<"e","s">>,             v |-> <<"E","S","=","F">>],
    [k |-> <<"n","q">>,             v |-> <<"N","Q","=","F">>],
    [k |-> <<"n","k","y">>,         v |-> <<"^","N","2","2","5">> ] >>

groups == <<
    [k |-> "All",    v |-> Keys(yfinance_tickers)],
    [k |-> "Majors", v |-> << <<"s","x","5","e">>, <<"e","s">>, <<"f","t","s","e">> >>],
    [k |-> "Europe", v |-> << <<"a","e","x">>, <<"b","a","n","k","s">>, <<"c","a","c">>,
                              <<"d","a","x">>, <<"f","t","s","e">>, <<"m","i","b">>,
                              <<"s","m","i">>, <<"s","x","5","e">> >>],
    [k |-> "US",     v |-> << <<"e","s">>, <<"n","q">> >>] >>

default_single == <<
    [k |-> "Apple",         v |-> <<"A","A","P","L">>],
    [k |-> "Nvidia",        v |-> <<"N","V","D","A">>],
    [k |-> "Tesla",         v |-> <<"T","S","L","A">>],
    [k |-> "Alphabet",      v |-> <<"G","O","O","G","L">>],
    [k |-> "Meta",          v |-> <<"M","E","T","A">>],
    [k |-> "Novo Nordisk",  v |-> <<"N","V","O">>],
    [k |-> "MicroStrategy", v |-> <<"M","S","T","R">>] >>

\* The anchor instrument of Single Stocks Mode.
Anchor == <<"e","s">>

(***************************************************************************)
(* Floats produced by the pandas division.                                 *)
(***************************************************************************)
Abs(x) == IF x < 0 THEN -x ELSE x
Sign(x) == IF x > 0 THEN 1 ELSE IF x < 0 THEN -1 ELSE 0

RECURSIVE GCD(_, _)
GCD(a, b) == IF b = 0 THEN a ELSE GCD(b, a % b)

\* num / den in pandas: a finite quotient, or +-inf / NaN for den = 0.
Quot(num, den) ==
    IF den = 0 THEN [n |-> Sign(num), d |-> 0]
    ELSE LET g == GCD(Abs(num), Abs(den))
         IN  [n |-> (Sign(den) * num) \div g, d |-> Abs(den) \div g]

\* q * k for an integer k > 0.
Times(q, k) ==
    IF q.d = 0 THEN q
    ELSE LET g == GCD(Abs(q.n * k), q.d)
         IN  [n |-> (q.n * k) \div g, d |-> q.d \div g]

(***************************************************************************)
(* fetch_data (lines 46-87).  data is what yf.download returned, already   *)
(* in the display zone; now_uk is the value of dt.datetime.now.            *)
(***************************************************************************)
\* return None, None
NoData == [none |-> TRUE, df |-> <<>>, ref_price |-> <<>>]

\* df_all[df_all.index.date == date]
OnDate(data, date) ==
    LET Same(r) == DateOf(r.t) = date IN SelectSeq(data, Same)

\* frame[frame.index >= instant]
FromInstant(data, instant) ==
    LET Later(r) == r.t >= instant IN SelectSeq(data, Later)

\* A slip in line 74: yesterday's first close (iloc[0]) as the fallback.
mut_ref_first_of_yesterday(data, now_uk) ==
    LET df_yesterday == OnDate(data, DateOf(now_uk) - 1)
        df_yesterday_after == FromInstant(df_yesterday, Combine(DateOf(now_uk) - 1, RefTime))
    IN  IF df_yesterday # <<>>
        THEN IF df_yesterday_after # <<>>
             THEN df_yesterday_after[1].Close
             ELSE df_yesterday[1].Close
        ELSE data[1].Close

\* Lines 66-76: the reference price of a non-empty intraday frame.
intraday_ref_price(data, now_uk) ==
    LET yesterday_date == DateOf(now_uk) - 1
        ref_dt == Combine(yesterday_date, RefTime)
        df_yesterday == OnDate(data, yesterday_date)
        df_yesterday_after == FromInstant(df_yesterday, ref_dt)
    IN  IF df_yesterday # <<>>
        THEN IF df_yesterday_after # <<>>
             THEN df_yesterday_after[1].Close
             ELSE Last(df_yesterday).Close
        ELSE data[1].Close

\* A slip in lines 78-79: today's rows by date, without the 08:00 start.
mut_df_today_by_date(data, now_uk) == OnDate(data, DateOf(now_uk))

\* Lines 77-79: today's rows from 08:00 on.
intraday_df_today(data, now_uk) ==
    LET today_date == DateOf(now_uk)
        start_today == Combine(today_date, StartTime)
    IN  FromInstant(data, start_today)

fetch_data(data, lookback, now_uk) ==
    IF lookback = 0
    THEN IF data = <<>>
         THEN NoData
         ELSE [none |-> FALSE,
               df |-> intraday_df_today(data, now_uk),
               ref_price |-> <<intraday_ref_price(data, now_uk)>>]
    ELSE IF data = <<>>
         THEN NoData
         ELSE [none |-> FALSE, df |-> data, ref_price |-> <<>>]

(***************************************************************************)
(* compute_pct_change (lines 89-103).                                      *)
(***************************************************************************)
\* Lines 97 and 101: the base of the division.
pct_base(frame, lookback, ref) ==
    IF lookback = 0 THEN ref[1] ELSE frame[1].Close

\* (close - base) / base * 100
pct_value(close, base) == Times(Quot(close - base, base), 100)

\* Returns the frame with its PctChange column, and the base.
compute_pct_change(frame, lookback, ref) ==
    LET base == pct_base(frame, lookback, ref)
    IN  [df |-> [i \in DOMAIN frame |->
                    [t |-> frame[i].t, Close |-> frame[i].Close,
                     PctChange |-> pct_value(frame[i].Close, base)]],
         base |-> base]

(***************************************************************************)
(* Frames yf.download may return: rows in strictly increasing time.        *)
(***************************************************************************)
RECURSIVE SortedSeq(_)
SortedSeq(T) ==
    IF T = {} THEN <<>>
    ELSE LET m == CHOOSE x \in T : \A y \in T : x <= y
         IN  <<m>> \o SortedSeq(T \ {m})

FrameOf(T, close) ==
    LET ts == SortedSeq(T)
    IN  [i \in DOMAIN ts |-> [t |-> ts[i], Close |-> close[ts[i]]]]

\* Every frame of at most n rows with timestamps in TS and closes in CS.
Frames(TS, CS, n) ==
    UNION {{FrameOf(T, close) : close \in [T -> CS]} :
              T \in {U \in SUBSET TS : Cardinality(U) <= n}}

\* Closes seen in a download; 0 is the degenerate price of spec section 4.3.
ClosePrices == {0, 95, 100, 105}

\* One-minute bars around the instants the code compares against.
IntradayInstants ==
    { Combine(0, 12 * 3600),
      Combine(1, RefTime - 5 * 60), Combine(1, RefTime), Combine(1, 20 * 3600),
      Combine(2, StartTime - 60), Combine(2, StartTime), Combine(2, 12 * 3600) }

\* Daily bars are indexed by the midnight of their date.
DailyInstants == {Combine(d, 0) : d \in 0..MaxLookback}

\* yf.download(period="2d", interval="1m") / (period=f"{lookback+1}d", interval="1d")
Downloads(lookback) ==
    IF lookback = 0
    THEN Frames(IntradayInstants, ClosePrices, MaxPts)
    ELSE Frames(DailyInstants, ClosePrices, lookback + 1)

\* Values of the clock: midday of day 2, and just after the next midnight.
Clock == { Combine(2, 12 * 3600 + 1800), Combine(2, 12 * 3600 + 1801), Combine(3, 600) }

(***************************************************************************)
(* FnSpec: fetch_data and compute_pct_change applied to every download.    *)
(***************************************************************************)
Idle ==
    /\ mode = "" /\ selected_group = "" /\ selected_single = <<>>
    /\ custom_stocks = <<>> /\ user_selection = <<>> /\ selected_tickers = <<>>
    /\ idx = 0 /\ fig = <<>> /\ errors = <<>> /\ warnings = <<>>
    /\ current_values = <<>> /\ stale_tickers = <<>> /\ sidebar = <<>> /\ log = <<>>

FnInit ==
    /\ Idle
    /\ pc = "call"
    /\ lookback_days \in 0..MaxLookback
    /\ df_all \in Downloads(lookback_days)
    /\ now \in Clock
    /\ df = <<>> /\ ref_price = <<>> /\ used_ref = <<>>

\* df, ref_price = fetch_data(yf_ticker, lookback_days)
FnFetch ==
    /\ pc = "call"
    /\ LET r == fetch_data(df_all, lookback_days, now)
       IN  /\ df' = r.df
           /\ ref_price' = r.ref_price
           /\ pc' = IF r.none \/ r.df = <<>> THEN "nodata" ELSE "fetched"
    /\ UNCHANGED <<selVars, outVars, idx, now, warnings, sidebar, df_all, used_ref>>

\* df, used_ref = compute_pct_change(df, lookback_days, ref_price)
FnCompute ==
    /\ pc = "fetched"
    /\ LET r == compute_pct_change(df, lookback_days, ref_price)
       IN  /\ df' = r.df
           /\ used_ref' = <<r.base>>
    /\ pc' = "computed"
    /\ UNCHANGED <<selVars, outVars, idx, now, warnings, sidebar, df_all, ref_price>>

FnNext == FnFetch \/ FnCompute

FnSpec == FnInit /\ [][FnNext]_vars

(***************************************************************************)
(* Mode selection (lines 127-169).                                         *)
(***************************************************************************)
Modes == {"Group mode", "Individual mode", "Single Stocks Mode"}

\* Line 158: [s.strip() for s in custom_stocks.split(",") if s.strip()]
custom_list(text) ==
    LET fields == Split(text, ",")
        stripped == [i \in DOMAIN fields |-> Strip(fields[i])]
        NonEmpty(f) == f # <<>>
    IN  SelectSeq(stripped, NonEmpty)

\* Lines 154-159: the picked stocks' tickers, then the typed ones.
single_user_selection(picks, text) ==
    [i \in DOMAIN picks |-> Lookup(default_single, picks[i])]
        \o (IF text # <<>> THEN custom_list(text) ELSE <<>>)

\* A slip in line 164: the anchor put after the user's tickers.
mut_anchor_appended(tickers) ==
    IF tickers = <<>>
    THEN <<Anchor>>
    ELSE IF ~Contains(tickers, Anchor) THEN tickers \o <<Anchor>> ELSE tickers

\* Lines 160-164: the anchor rule.
with_anchor(tickers) ==
    IF tickers = <<>>
    THEN <<Anchor>>
    ELSE IF ~Contains(tickers, Anchor) THEN <<Anchor>> \o tickers ELSE tickers

\* One run of lines 127-169 for the given widget values.  A widget of a mode
\* that is not selected is not drawn and keeps its empty value.
Resolve(m, lookback, g, picks, text) ==
    /\ mode' = m
    /\ lookback_days' = lookback
    /\ selected_group' = IF m = "Group mode" THEN g ELSE ""
    /\ selected_single' = IF m = "Single Stocks Mode" THEN picks ELSE <<>>
    /\ custom_stocks' = IF m = "Single Stocks Mode" THEN text ELSE <<>>
    /\ user_selection' =
          IF m = "Group mode" THEN Lookup(groups, g)
          ELSE IF m = "Individual mode" THEN picks
          ELSE single_user_selection(picks, text)
    /\ selected_tickers' =
          IF m = "Single Stocks Mode" THEN with_anchor(user_selection') ELSE user_selection'
    /\ IF selected_tickers' = <<>>
       THEN /\ warnings' = Append(warnings, "Please select at least one ticker to plot.")
            /\ pc' = "stopped"
            /\ idx' = idx
       ELSE /\ warnings' = warnings
            /\ pc' = "loop"
            /\ idx' = 1

\* The user sets the widgets: the slider, a group, indices in the order picked,
\* stocks in the order picked and a typed text, drawn from the given sets.
SelectFrom(lookbacks, groupNames, indexPicks, stockPicks, texts) ==
    /\ pc = "select"
    /\ \E lookback \in lookbacks :
          \/ \E g \in groupNames : Resolve("Group mode", lookback, g, <<>>, <<>>)
          \/ \E picks \in indexPicks : Resolve("Individual mode", lookback, "", picks, <<>>)
          \/ \E picks \in stockPicks, text \in texts :
                Resolve("Single Stocks Mode", lookback, "", picks, text)
    /\ UNCHANGED <<outVars, fnVars, now, sidebar>>

(***************************************************************************)
(* SelSpec: the selection alone, over every group, every pick of at most   *)
(* MaxPicks entries and every typed text of at most MaxCustomLen           *)
(* characters.                                                             *)
(***************************************************************************)
TypedChars == {"e", "s", "A", ",", " "}

SelInit ==
    /\ Idle
    /\ pc = "select"
    /\ lookback_days = 0
    /\ now = Combine(2, 12 * 3600)
    /\ df_all = <<>> /\ df = <<>> /\ ref_price = <<>> /\ used_ref = <<>>

SelSelect ==
    SelectFrom(0..MaxLookback,
               Range(Keys(groups)),
               InjSeqsUpTo(Range(Keys(yfinance_tickers)), MaxPicks),
               InjSeqsUpTo(Range(Keys(default_single)), MaxPicks),
               SeqsUpTo(TypedChars, MaxCustomLen))

SelNext == SelSelect

SelSpec == SelInit /\ [][SelNext]_vars

(***************************************************************************)
(* The loop over selected_tickers (lines 178-225).                         *)
(***************************************************************************)
\* A slip in line 182: the catalog subscript in every mode.
mut_source_id_subscript(m, key) ==
    IF HasKey(yfinance_tickers, key) THEN <<Lookup(yfinance_tickers, key)>> ELSE <<>>

\* Lines 179-182: the source identifier, <<>> when the lookup raises KeyError.
source_id(m, key) ==
    IF m # "Single Stocks Mode"
    THEN IF HasKey(yfinance_tickers, key) THEN <<Lookup(yfinance_tickers, key)>> ELSE <<>>
    ELSE IF HasKey(yfinance_tickers, key) THEN <<Lookup(yfinance_tickers, key)>> ELSE <<key>>

\* Line 184: df is None or df.empty
no_data(r) == r.none \/ r.df = <<>>

\* A slip in line 186: st.stop() where the loop should go on.
mut_stop_on_no_data(skipped) == IF skipped THEN "stopped" ELSE "loop"

\* Lines 185-186: after the notice the loop goes on to the next key (continue).
pc_after(skipped) == "loop"

\* A slip in line 224: >= for >.
mut_stale_at_threshold(last_time, now_uk) == now_uk - last_time >= StaleThreshold

\* Line 224: (now_uk - last_time).total_seconds() > 1800
is_stale(last_time, now_uk) == now_uk - last_time > StaleThreshold

\* Lines 197-203: the trace of a frame that has its PctChange column.
trace_of(key, frame, lookback) ==
    [name |-> Upper(key),
     x |-> [i \in DOMAIN frame |-> frame[i].t],
     y |-> [i \in DOMAIN frame |-> frame[i].PctChange],
     mode |-> IF lookback > 0 THEN "lines+markers" ELSE "lines"]

\* Frames the loop's downloads return, and the clock values it may read.
LoopCloses == {0, 100}
LoopIntradayInstants == {Combine(1, RefTime), Combine(2, 12 * 3600)}
LoopDailyInstants == {Combine(1, 0), Combine(2, 0)}

LoopDownloads(lookback) ==
    IF lookback = 0
    THEN Frames(LoopIntradayInstants, LoopCloses, MaxPts)
    ELSE Frames(LoopDailyInstants, LoopCloses, lookback + 1)

\* A later reading of the clock.
ClockFrom(t) == {n \in Clock : n >= t}

\* One iteration with the download and the two clock readings given:
\* fetch_now is read inside fetch_data (intraday only), stale_now at line 223
\* (only when the instrument is rendered).
Iterate(key, ticker, data, fetch_now, stale_now) ==
    LET fetched == fetch_data(data, lookback_days, fetch_now)
        skipped == no_data(fetched)
        computed == compute_pct_change(fetched.df, lookback_days, fetched.ref_price)
        frame == computed.df
        label == Upper(key)
        stale == is_stale(Last(frame).t, stale_now)
    IN  /\ pc' = pc_after(skipped)
        /\ IF skipped
           THEN /\ errors' = Append(errors, [label |-> label, ticker |-> ticker])
                /\ UNCHANGED <<fig, current_values, stale_tickers>>
                /\ now' = fetch_now
           ELSE /\ fig' = Append(fig, trace_of(key, frame, lookback_days))
                /\ current_values' = DictSet(current_values, label, Last(frame).Close)
                /\ stale_tickers' = IF stale THEN Append(stale_tickers, label) ELSE stale_tickers
                /\ errors' = errors
                /\ now' = stale_now
        /\ log' = Append(log, [key |-> key, ticker |-> ticker, data |-> data,
                               fetch_now |-> fetch_now,
                               ref_price |-> fetched.ref_price,
                               rendered |-> ~skipped,
                               shown |-> IF skipped THEN <<>> ELSE frame,
                               stale_now |-> IF skipped THEN fetch_now ELSE stale_now])

LoopBody ==
    /\ pc = "loop"
    /\ idx <= Len(selected_tickers)
    /\ LET key == selected_tickers[idx]
           id == source_id(mode, key)
       IN  IF id = <<>>
           THEN /\ pc' = "exception"
                /\ UNCHANGED <<idx, now, outVars>>
           ELSE /\ \E data \in LoopDownloads(lookback_days) :
                   \E fetch_now \in (IF lookback_days = 0 THEN ClockFrom(now) ELSE {now}) :
                   \E stale_now \in ClockFrom(fetch_now) :
                      /\ no_data(fetch_data(data, lookback_days, fetch_now)) => stale_now = fetch_now
                      /\ Iterate(key, id[1], data, fetch_now, stale_now)
                /\ idx' = idx + 1
    /\ UNCHANGED <<selVars, fnVars, warnings, sidebar>>

(***************************************************************************)
(* After the loop (lines 227-262): the chart, the summary panel, the       *)
(* combined stale warning and the time of the update.                      *)
(***************************************************************************)
Aggregate ==
    /\ pc = "loop"
    /\ idx > Len(selected_tickers)
    /\ \E last_update \in ClockFrom(now) :
          /\ sidebar' = [values |-> current_values, last_update |-> <<last_update>>]
          /\ now' = last_update
    /\ warnings' = IF stale_tickers # <<>>
                   THEN Append(warnings, "Data may be stale (>30 minutes old).")
                   ELSE warnings
    /\ pc' = "done"
    /\ UNCHANGED <<selVars, fnVars, outVars, idx>>

(***************************************************************************)
(* Spec: one render cycle.  The slider is at 0 (intraday) or 1 (daily),    *)
(* the widgets are set to a group, to picks among LoopIndices / LoopStocks *)
(* or to one of LoopTexts, and the loop runs over selections of at most    *)
(* MaxSel instruments.                                                     *)
(***************************************************************************)
LoopLookbacks == {0, 1}
LoopIndices == { <<"e","s">>, <<"d","a","x">> }
LoopStocks == {"Apple"}
LoopTexts == { <<>>, <<"A">>, <<" ","e","s",","," ">>, <<"a",",","A">> }

Init ==
    /\ Idle
    /\ pc = "select"
    /\ lookback_days = 0
    /\ now = Combine(2, 12 * 3600 + 1800)
    /\ sidebar = <<>>
    /\ df_all = <<>> /\ df = <<>> /\ ref_price = <<>> /\ used_ref = <<>>

Select ==
    /\ SelectFrom(LoopLookbacks,
                  Range(Keys(groups)),
                  InjSeqsUpTo(LoopIndices, MaxSel),
                  InjSeqsUpTo(LoopStocks, MaxSel),
                  LoopTexts)
    /\ Len(selected_tickers') <= MaxSel

Next == Select \/ LoopBody \/ Aggregate

Spec == Init /\ [][Next]_vars

(***************************************************************************)
(* Helpers of the properties below.                                        *)
(***************************************************************************)
MinOf(S) == CHOOSE x \in S : \A y \in S : x <= y
MaxOf(S) == CHOOSE x \in S : \A y \in S : y <= x
\* The j-th smallest element of a set of numbers.
NthOf(S, j) == CHOOSE x \in S : Cardinality({y \in S : y <= x}) = j
\* A frame without its PctChange column.
Raw(frame) == [i \in DOMAIN frame |-> [t |-> frame[i].t, Close |-> frame[i].Close]]

\* FnSpec: the rows of df_all dated yesterday, and those of them at or after 16:30.
YesterdayRows == {i \in DOMAIN df_all : DateOf(df_all[i].t) = DateOf(now) - 1}
AnchorRows == {i \in YesterdayRows : df_all[i].t >= (DateOf(now) - 1) * Day + 16 * 3600 + 30 * 60}
\* The row the reference rule of spec section 4.2 designates.
RuleRow ==
    IF AnchorRows # {} THEN MinOf(AnchorRows)
    ELSE IF YesterdayRows # {} THEN MaxOf(YesterdayRows)
    ELSE 1
\* FnSpec: the rows of df_all at or after today 08:00.
TodayRows == {i \in DOMAIN df_all : df_all[i].t >= DateOf(now) * Day + 8 * 3600}
FetchReturned == pc \in {"fetched", "nodata", "computed"}

(***************************************************************************)
(* C1.  Intraday, non-empty download: the reference returned by fetch_data *)
(* is the close of the earliest row of yesterday at or after 16:30 if      *)
(* there is one, else the close of yesterday's last row if yesterday has a *)
(* row, else the close of the first row of the download.                   *)
(***************************************************************************)
C1_ReferenceRule ==
    (FetchReturned /\ lookback_days = 0 /\ df_all # <<>>)
        => ref_price = <<df_all[RuleRow].Close>>

\* C1 reached: yesterday has rows, none reaches 16:30, and its last close is returned
\* although the download starts with another close.
C1_Witness ==
    /\ pc = "fetched" /\ lookback_days = 0
    /\ YesterdayRows # {} /\ AnchorRows = {} /\ 1 \notin YesterdayRows
    /\ ref_price = <<df_all[MaxOf(YesterdayRows)].Close>>
    /\ ref_price # <<df_all[1].Close>>

(***************************************************************************)
(* C9.  Intraday, non-empty download: the display frame is exactly the     *)
(* rows at or after today 08:00, in order and with their closes, also      *)
(* after normalisation; the reference is the one resolved on the whole     *)
(* download; with no row at or after 08:00 the instrument is skipped       *)
(* although a reference was resolved.                                      *)
(***************************************************************************)
C9_CutoffFrame ==
    /\ Len(df) = Cardinality(TodayRows)
    /\ \A j \in DOMAIN df : Raw(df)[j] = df_all[NthOf(TodayRows, j)]
    /\ ref_price = <<df_all[RuleRow].Close>>
    /\ TodayRows = {} => (pc = "nodata" /\ ref_price # <<>>)
    /\ TodayRows # {} => pc # "nodata"

\* C9 as claimed: the above, and the reference row is always one the cutoff
\* removes from the display frame.
C9_Original ==
    (FetchReturned /\ lookback_days = 0 /\ df_all # <<>>)
        => (C9_CutoffFrame /\ RuleRow \notin TodayRows)

\* C9 amended: the above, and the reference row is one the cutoff removes,
\* unless yesterday has no row and the download starts at or after today
\* 08:00, where it is the first displayed row.
C9_Amended ==
    (FetchReturned /\ lookback_days = 0 /\ df_all # <<>>)
        => /\ C9_CutoffFrame
           /\ \/ RuleRow \notin TodayRows
              \/ (YesterdayRows = {} /\ RuleRow = 1 /\ TodayRows = DOMAIN df_all)

\* C9 reached: the cutoff removed rows, among them the reference row, and what is left
\* starts with another close.
C9_Witness ==
    /\ pc = "computed" /\ lookback_days = 0
    /\ TodayRows # {} /\ TodayRows # DOMAIN df_all
    /\ RuleRow \notin TodayRows
    /\ ref_price # <<df[1].Close>>
    /\ used_ref = ref_price

(***************************************************************************)
(* C6.  Daily mode: the base used by compute_pct_change is the first       *)
(* close, every value is (close - base) / base * 100 (n/d with             *)
(* n * base = (close - base) * 100 * d), and the first value is exactly 0. *)
(***************************************************************************)
C6_DailyBaseline ==
    (pc = "computed" /\ lookback_days >= 1)
        => /\ used_ref = <<df_all[1].Close>>
           /\ \A i \in DOMAIN df :
                 /\ df[i].PctChange.d > 0
                 /\ df[i].PctChange.n * df_all[1].Close
                       = (df_all[i].Close - df_all[1].Close) * 100 * df[i].PctChange.d
           /\ df[1].PctChange = [n |-> 0, d |-> 1]

\* C6, the scenario of spec section 8: closes 100, 105, 95 give 0, 5, -5.
C6_Scenario ==
    /\ pc = "computed" /\ lookback_days = 2
    /\ [i \in DOMAIN df_all |-> df_all[i].Close] = <<100, 105, 95>>
    /\ used_ref = <<100>>
    /\ [i \in DOMAIN df |-> df[i].PctChange]
          = <<[n |-> 0, d |-> 1], [n |-> 5, d |-> 1], [n |-> -5, d |-> 1]>>

(***************************************************************************)
(* C4.  Single Stocks Mode: the final selection is non-empty and holds     *)
(* the anchor; an empty user selection gives the anchor alone, one without *)
(* the anchor gets it in front with its order kept, one with the anchor is *)
(* left as it is.                                                          *)
(***************************************************************************)
C4_AnchorRule ==
    (pc # "select" /\ mode = "Single Stocks Mode")
        => /\ selected_tickers # <<>>
           /\ \E i \in DOMAIN selected_tickers : selected_tickers[i] = <<"e","s">>
           /\ user_selection = <<>> => selected_tickers = << <<"e","s">> >>
           /\ (user_selection # <<>> /\ <<"e","s">> \notin Range(user_selection))
                 => /\ Len(selected_tickers) = Len(user_selection) + 1
                    /\ selected_tickers[1] = <<"e","s">>
                    /\ \A i \in DOMAIN user_selection :
                          selected_tickers[i + 1] = user_selection[i]
           /\ <<"e","s">> \in Range(user_selection) => selected_tickers = user_selection

\* C4 reached: a picked stock and a typed symbol, neither the anchor: the anchor is put first.
C4_Witness ==
    /\ pc = "loop" /\ mode = "Single Stocks Mode"
    /\ selected_single # <<>> /\ custom_stocks # <<>>
    /\ Len(user_selection) >= 2
    /\ <<"e","s">> \notin Range(user_selection)
    /\ selected_tickers = << <<"e","s">> >> \o user_selection

(***************************************************************************)
(* C5.  The list the loop iterates holds each instrument key exactly once. *)
(***************************************************************************)
C5_Deduplicated ==
    pc # "select"
        => \A i, j \in DOMAIN selected_tickers :
              selected_tickers[i] = selected_tickers[j] => i = j

(***************************************************************************)
(* Spec: the rows of a logged download that are displayed, and the         *)
(* iterations by outcome.                                                  *)
(***************************************************************************)
DisplayRows(e) ==
    {r \in DOMAIN e.data :
        lookback_days >= 1 \/ e.data[r].t >= DateOf(e.fetch_now) * Day + 8 * 3600}
WithDownload == {i \in DOMAIN log : log[i].data # <<>>}
WithDisplay == {i \in DOMAIN log : DisplayRows(log[i]) # {}}

\* The loop has handled the keys before idx, one log entry each; the
\* iterations in R gave one trace each, the others one notice each, in order.
BatchOutcome(R) ==
    /\ Len(log) = idx - 1
    /\ \A i \in DOMAIN log : log[i].key = selected_tickers[i]
    /\ Len(fig) = Cardinality(R)
    /\ \A j \in DOMAIN fig : fig[j].name = Upper(selected_tickers[NthOf(R, j)])
    /\ Len(errors) = Cardinality(DOMAIN log \ R)
    /\ \A j \in DOMAIN errors :
          errors[j].label = Upper(selected_tickers[NthOf(DOMAIN log \ R, j)])

(***************************************************************************)
(* C2.  Best-effort batch: no exception ends the cycle; every instrument   *)
(* with a non-empty series gives a trace and every other one exactly one   *)
(* notice, wherever it sits in the selection.                              *)
(***************************************************************************)
\* C2 as claimed: the series that decides is the fetched one.
C2_Original ==
    /\ pc # "exception"
    /\ pc \in {"loop", "done"} => BatchOutcome(WithDownload)

\* C2 amended: the series that decides is the display series (the fetched
\* one, cut in intraday mode to the rows from today 08:00 on); its rows are
\* the trace.
C2_Amended ==
    /\ pc # "exception"
    /\ pc \in {"loop", "done"} =>
          /\ BatchOutcome(WithDisplay)
          /\ \A j \in DOMAIN fig :
                LET e == log[NthOf(WithDisplay, j)]
                IN  /\ Len(fig[j].x) = Cardinality(DisplayRows(e))
                    /\ Len(fig[j].y) = Len(fig[j].x)
                    /\ \A k \in DOMAIN fig[j].x :
                          fig[j].x[k] = e.data[NthOf(DisplayRows(e), k)].t

\* C2 reached: three instruments, the second with an empty download: two traces, one notice.
C2_Witness ==
    /\ pc = "done"
    /\ Len(selected_tickers) = 3
    /\ log[1].data # <<>> /\ log[2].data = <<>> /\ log[3].data # <<>>
    /\ Len(fig) = 2 /\ Len(errors) = 1
    /\ errors[1].label = Upper(selected_tickers[2])

(***************************************************************************)
(* C3.  A reference price of 0 makes the instrument skipped, and no        *)
(* infinite or undefined value is passed to the figure.                    *)
(***************************************************************************)
C3_ZeroReferenceGuard ==
    /\ \A i \in DOMAIN log :
          (/\ log[i].data # <<>>
           /\ IF lookback_days = 0 THEN log[i].ref_price = <<0>>
                                   ELSE log[i].data[1].Close = 0)
             => ~log[i].rendered
    /\ \A j \in DOMAIN fig : \A k \in DOMAIN fig[j].y : fig[j].y[k].d # 0

(***************************************************************************)
(* C7.  In an iteration the label is added to the stale list if and only   *)
(* if the instrument was rendered and the clock read then is more than     *)
(* 1800 seconds after its last displayed row; a later clock keeps a stale  *)
(* row stale.                                                              *)
(***************************************************************************)
C7_StaleRule ==
    [][ (pc = "loop" /\ idx' = idx + 1) =>
          /\ stale_tickers' =
                IF fig' # fig /\ now' - Last(Last(fig').x) > 1800
                THEN Append(stale_tickers, Upper(selected_tickers[idx]))
                ELSE stale_tickers
          /\ \A t \in LoopIntradayInstants \cup LoopDailyInstants :
             \A n1, n2 \in Clock :
                (n2 > n1 /\ is_stale(t, n1)) => is_stale(t, n2)
      ]_vars

\* C7 reached: one instrument rendered exactly 1800 s after its last row and not listed,
\* another rendered 1801 s after it and listed.
C7_Witness ==
    \E i, j \in DOMAIN log :
        /\ log[i].rendered /\ log[j].rendered
        /\ log[i].stale_now - Last(log[i].shown).t = 1800
        /\ log[j].stale_now - Last(log[j].shown).t = 1801
        /\ stale_tickers = <<Upper(log[j].key)>>
        /\ Upper(log[i].key) # Upper(log[j].key)

C10_Aggregation ==
    pc = "done" =>
        /\ Len(log) = Len(selected_tickers)
        /\ Len(fig) + Len(errors) = Len(log)
        /\ Range(Keys(sidebar.values)) = {Upper(log[i].key) : i \in WithDisplay}
        /\ \A i \in WithDisplay :
              Lookup(sidebar.values, Upper(log[i].key))
                 = log[i].data[MaxOf(DisplayRows(log[i]))].Close
        /\ Range(stale_tickers) \subseteq Range(Keys(sidebar.values))

====
